---- MODULE Spec2Model ----
(***************************************************************************)
(* A model of the Epic OAuth callback server: the state store              *)
(* (state-manager.js), the authorization initiator and the token exchanger *)
(* (oauth.js) and the HTTP request handler (index.js).                     *)
(*                                                                         *)
(* JavaScript values are modelled as strings and records; the absent value *)
(* undefined is the string "undefined" (as a property key it is that       *)
(* string in JavaScript too).  Time is in milliseconds.                    *)
(***************************************************************************)
EXTENDS Integers, Sequences, FiniteSets, TLC

(***************************************************************************)
(* Bounds of the model.                                                    *)
(***************************************************************************)
\* how many uuids uuidv4() can hand out
MaxTokens == 2
\* how many validateState calls the store harness records
MaxCalls == 3
\* how many clock advances a behaviour takes
MaxTicks == 1
\* how many requests the server receives
MaxRequests == 2

(***************************************************************************)
(* Program constants.                                                      *)
(***************************************************************************)
\* state-manager.js:3   5 * 60 * 1000
STATE_TTL_MS == 300000

Undefined == "undefined"

\* the values uuidv4() returns (distinct from every other key used below)
UUIDs == {"uuid-" \o ToString(i) : i \in 1..MaxTokens}

\* uuidv4() after n earlier calls: a value it has not returned before (the
\* ids are taken to be collision-free; which fresh value comes is immaterial)
uuidv4(n) == "uuid-" \o ToString(n + 1)

\* stateStore = {} is a plain object: a key it does not own is looked up on
\* Object.prototype, where these keys (among others) hold functions.
ObjectPrototypeKeys == {"constructor"}

\* what a caller can hand to validateState: an issued or unissued uuid, the
\* absent state of a callback without one (any never-issued key), an
\* inherited key
StateInputs == UUIDs \cup {Undefined} \cup ObjectPrototypeKeys

\* the amounts by which the clock advances between two events
TickSteps == {STATE_TTL_MS, STATE_TTL_MS + 1}

VARIABLES
  stateStore,   \* state-manager.js stateStore: own keys -> Date (ms)
  now,          \* the wall clock read by new Date()
  ticks,        \* clock advances so far
  issued,       \* history: uuid -> time of its issuance by generateState
  calls,        \* history: the validateState calls of the store harness
  env,          \* process.env as read at module load (oauth.js 26-38)
  authUri,      \* oauth.js 44
  tokenUri,     \* oauth.js 44
  listening,    \* the http server accepts connections
  crashed,      \* the process died of an unhandled rejection
  reqs,         \* the requests received, in order, each with its handler's state
  tokenFile,    \* ./token.json
  responseFiles \* ./responses/

vars == <<stateStore, now, ticks, issued, calls, env, authUri, tokenUri,
          listening, crashed, reqs, tokenFile, responseFiles>>
serverVars == <<env, authUri, tokenUri, listening, crashed, reqs, tokenFile,
                responseFiles>>

(***************************************************************************)
(* state-manager.js                                                        *)
(***************************************************************************)
\* stateStore[state]: an own entry, else the prototype's, else undefined
lookup(store, key) ==
  IF key \in DOMAIN store THEN [type |-> "date", ms |-> store[key]]
  ELSE IF key \in ObjectPrototypeKeys THEN [type |-> "function", ms |-> 0]
  ELSE [type |-> Undefined, ms |-> 0]

\* delete stateStore[state]: removes an own key, no effect otherwise
deleteKey(store, key) == [k \in DOMAIN store \ {key} |-> store[k]]

\* the comparison of line 40 with < in place of <=
withinTTLStrict(clock, timestamp) ==
  /\ timestamp.type = "date"
  /\ clock - timestamp.ms < STATE_TTL_MS

\* new Date() - timestamp <= STATE_TTL_MS; the difference is NaN, and the
\* comparison false, when timestamp is not a Date
withinTTL(clock, timestamp) ==
  /\ timestamp.type = "date"
  /\ clock - timestamp.ms <= STATE_TTL_MS

\* generateState starting a new store at each call (forgets the pending states)
generateStateForgetful(store, clock, uuid) ==
  [ret   |-> uuid,
   store |-> [k \in {uuid} |-> clock]]

\* generateState with uuidv4() = uuid: the returned state and the new store
generateState(store, clock, uuid) ==
  [ret   |-> uuid,
   store |-> [k \in DOMAIN store \cup {uuid} |->
                IF k = uuid THEN clock ELSE store[k]]]

\* validateState without the delete of line 37 (a replayable state)
validateStateNoDelete(store, clock, state) ==
  LET timestamp == lookup(store, state) IN
  IF timestamp.type = Undefined
    THEN [ret |-> FALSE, store |-> store]
    ELSE [ret |-> withinTTL(clock, timestamp), store |-> store]

\* validateState without the comparison of line 40 (no expiry)
validateStateNoTTL(store, clock, state) ==
  LET timestamp == lookup(store, state) IN
  IF timestamp.type = Undefined
    THEN [ret |-> FALSE, store |-> store]
    ELSE [ret |-> TRUE, store |-> deleteKey(store, state)]

\* validateState taking any truthy timestamp that is not a Date for valid
validateStateTruthy(store, clock, state) ==
  LET timestamp == lookup(store, state) IN
  IF timestamp.type = Undefined
    THEN [ret |-> FALSE, store |-> store]
    ELSE [ret |-> timestamp.type # "date" \/ withinTTL(clock, timestamp),
          store |-> deleteKey(store, state)]

\* validateState also dropping every entry older than the TTL (a sweep)
validateStateSweep(store, clock, state) ==
  LET timestamp == lookup(store, state)
      kept == {k \in DOMAIN store \ {state} :
                 clock - store[k] <= STATE_TTL_MS}
  IN
  IF timestamp.type = Undefined
    THEN [ret |-> FALSE, store |-> store]
    ELSE [ret |-> withinTTL(clock, timestamp),
          store |-> [k \in kept |-> store[k]]]

\* validateState(state): the returned boolean and the new store
validateState(store, clock, state) ==
  LET timestamp == lookup(store, state) IN
  IF timestamp.type = Undefined
    THEN [ret |-> FALSE, store |-> store]
    ELSE [ret |-> withinTTL(clock, timestamp),
          store |-> deleteKey(store, state)]


(***************************************************************************)
(* oauth.js: configuration                                                 *)
(***************************************************************************)
CLIENT_ID == "client-id"
REDIRECT_URI == "http://localhost:4005/callback"
SCOPE == "openid fhirUser profile"
\* the URIs the metadata document names
AUTHORIZE_URI == "https://epic.example/oauth2/authorize"
TOKEN_URI == "https://epic.example/oauth2/token"
\* test-requests.json as the README gives it: the resources to fetch, in
\* order
requests == <<"Patient", "Appointment">>

\* a JavaScript string in a condition: undefined and '' are falsy
truthy(v) == v # Undefined /\ v # ""

NoError == [cause |-> "", message |-> ""]

(***************************************************************************)
(* JSON.  A text is the sequence of its lexemes: the punctuation "{" "}"   *)
(* ":" ",", the white space " " and "\n" one character at a time, and      *)
(* every other lexeme a string literal (written without its quotes).  Two  *)
(* texts are the same bytes exactly if they are the same sequence.  A      *)
(* parsed object is the sequence of its <<key, value>> members in          *)
(* insertion order; the objects here are flat, with string values.         *)
(***************************************************************************)
Whitespace == {" ", "\n"}

\* obj[key] = value on a JavaScript object: an existing key keeps its
\* position and takes the value, a new key is appended
setMember(obj, key, value) ==
  IF \E j \in 1..Len(obj) : obj[j][1] = key
    THEN [j \in 1..Len(obj) |->
            IF obj[j][1] = key THEN <<key, value>> ELSE obj[j]]
    ELSE Append(obj, <<key, value>>)

\* obj[key]
member(obj, key) ==
  IF \E j \in 1..Len(obj) : obj[j][1] = key
    THEN obj[CHOOSE j \in 1..Len(obj) : obj[j][1] = key][2]
    ELSE Undefined

\* the members of the lexemes "{" k ":" v "," k ":" v ... "}" (white space
\* removed), read from the left up to the n-th
RECURSIVE membersUpTo(_, _)
membersUpTo(lexemes, n) ==
  IF n = 0 THEN << >>
  ELSE setMember(membersUpTo(lexemes, n - 1),
                 lexemes[4 * n - 2], lexemes[4 * n])

\* JSON.parse(text), and response.json(), on the text of a flat object
JSONparse(text) ==
  LET lexemes == SelectSeq(text, LAMBDA x : x \notin Whitespace) IN
  membersUpTo(lexemes, (Len(lexemes) - 1) \div 4)

\* the lines of the members from the n-th on, each indented by two spaces
\* and all but the last followed by a comma
RECURSIVE memberLines(_, _)
memberLines(obj, n) ==
  IF n > Len(obj) THEN << >>
  ELSE <<" ", " ", obj[n][1], ":", " ", obj[n][2]>>
       \o (IF n < Len(obj) THEN <<",">> ELSE << >>)
       \o <<"\n">>
       \o memberLines(obj, n + 1)

\* JSON.stringify(obj, null, 2) without the members but the first
JSONstringifyFirstMember(obj) ==
  IF Len(obj) = 0 THEN <<"{", "}">>
  ELSE <<"{", "\n">> \o memberLines(SubSeq(obj, 1, 1), 1) \o <<"}">>

\* JSON.stringify(obj, null, 2)
JSONstringify(obj) ==
  IF Len(obj) = 0 THEN <<"{", "}">>
  ELSE <<"{", "\n">> \o memberLines(obj, 1) \o <<"}">>

\* no token response parsed yet
NoToken == << >>
\* no file
NoFile == << >>

\* jwtDecode(id_token) returns (does not throw InvalidTokenError)
jwtDecodes(id_token) == id_token = "jwt"

\* fetch(uri, ...) sends a request; with uri undefined it rejects with
\* TypeError('Failed to parse URL from undefined') before sending anything
fetchSends(uri) == uri # Undefined

(***************************************************************************)
(* oauth.js: requestEpicAuthorization                                      *)
(***************************************************************************)
\* the scope of the authorization request (line 75)
scopeOf(launch) == IF truthy(launch) THEN SCOPE \o " launch" ELSE SCOPE

\* lines 83-92 without the aud entry of line 89
authorizationParamsNoAud(query, state, secret) ==
  << <<"response_type", "code">>,
     <<"client_id", CLIENT_ID>>,
     <<"scope", scopeOf(query.launch)>>,
     <<"redirect_uri", REDIRECT_URI>>,
     <<"state", state>> >>
  \o (IF truthy(query.launch) THEN << <<"launch", query.launch>> >> ELSE << >>)
  \o (IF truthy(secret) THEN << <<"secret", secret>> >> ELSE << >>)

\* the entries of the URLSearchParams of lines 83-92, in insertion order
authorizationParams(query, state, secret) ==
  << <<"response_type", "code">>,
     <<"client_id", CLIENT_ID>>,
     <<"scope", scopeOf(query.launch)>>,
     <<"redirect_uri", REDIRECT_URI>>,
     <<"state", state>> >>
  \o (IF truthy(query.iss) THEN << <<"aud", query.iss>> >> ELSE << >>)
  \o (IF truthy(query.launch) THEN << <<"launch", query.launch>> >> ELSE << >>)
  \o (IF truthy(secret) THEN << <<"secret", secret>> >> ELSE << >>)

\* requestEpicAuthorization(res, req) with generateState() = state:
\* the 302 answer (lines 93-98)
requestEpicAuthorization(r, state) ==
  [r EXCEPT !.head = 302, !.ended = TRUE,
            !.location = [base |-> authUri,
                          params |-> authorizationParams(r.query, state,
                                                         env.CLIENT_SECRET)],
            !.pc = "returned"]

(***************************************************************************)
(* oauth.js: exchangeCodeForToken                                          *)
(***************************************************************************)
\* the catch block were writeHead not to throw once the headers are sent:
\* the 500 answer replaces the one given before
catchBlockOverwrites(r, error) ==
  [r EXCEPT !.head = 500, !.ended = TRUE,
            !.writes = @ + 1,
            !.body = error.cause \o ": " \o error.message,
            !.error = error,
            !.pc = "returned"]

\* the catch block (lines 180-183): res.writeHead throws ERR_HTTP_HEADERS_SENT
\* when writeHead was called before, and the async function then rejects
catchBlock(r, error) ==
  IF r.head # 0
    THEN [r EXCEPT !.pc = "rejected", !.error = error]
    ELSE [r EXCEPT !.head = 500, !.ended = TRUE,
                   !.writes = @ + 1,
                   !.body = error.cause \o ": " \o error.message,
                   !.error = error,
                   !.pc = "returned"]

\* lines 129-135 alone: the checks without the state check of line 125
callbackErrorNoStateCheck(query, valid) ==
  IF truthy(query.error)
    THEN [cause |-> query.error,
          message |-> IF query.error_description = Undefined
                        THEN "" ELSE query.error_description]
  ELSE IF ~truthy(query.code)
    THEN [cause |-> "Missing code", message |-> "Missing authorization code"]
  ELSE NoError

\* the checks of lines 125-135 given validateState's answer: the error
\* thrown, or NoError.  Evaluating the message of the first throw reads the
\* undeclared identifier `state`, so what is thrown there is a
\* ReferenceError, which has no cause.
callbackError(query, valid) ==
  IF ~valid
    THEN [cause |-> Undefined, message |-> "state is not defined"]
  ELSE IF truthy(query.error)
    THEN [cause |-> query.error,
          message |-> IF query.error_description = Undefined
                        THEN "" ELSE query.error_description]
  ELSE IF ~truthy(query.code)
    THEN [cause |-> "Missing code", message |-> "Missing authorization code"]
  ELSE NoError

\* the body of the token request (lines 141-147)
tokenParams(code, secret) ==
  << <<"grant_type", "authorization_code">>,
     <<"code", code>>,
     <<"redirect_uri", REDIRECT_URI>>,
     <<"client_id", CLIENT_ID>> >>
  \o (IF truthy(secret) THEN << <<"secret", secret>> >> ELSE << >>)

\* lines 117-156, up to the first await: r with the answer of validateState
exchangeStart(r, valid) ==
  LET error == callbackError(r.query, valid)
      v == [r EXCEPT !.validated = IF valid THEN "true" ELSE "false"]
  IN
  IF error # NoError THEN catchBlock(v, error)
  ELSE IF fetchSends(tokenUri)
    THEN [v EXCEPT !.posts = Append(@, [url |-> tokenUri,
                                        body |-> tokenParams(r.query.code,
                                                             env.CLIENT_SECRET)]),
                   !.pc = "awaitToken"]
    ELSE catchBlock(v, [cause |-> "TypeError: Invalid URL",
                        message |-> "Failed to parse URL from undefined"])

\* testRequests issuing every GET at once (Promise.all instead of
\* Bluebird.each)
testRequestsAllAtOnce(r) ==
  IF Len(requests) = 0 THEN [r EXCEPT !.pc = "returned"]
  ELSE [r EXCEPT !.gets = requests, !.pc = "awaitResource"]

\* testRequests (lines 228-238): the first GET of Bluebird.each, if any
testRequests(r) ==
  IF Len(requests) = 0 THEN [r EXCEPT !.pc = "returned"]
  ELSE [r EXCEPT !.gets = Append(@, requests[1]), !.pc = "awaitResource"]

\* lines 174-179: the success answer, then the additional requests.
\* res.writeHead(200) is called before successPage(token, profile) is
\* evaluated, and successPage starts by decoding the ID token
\* (pages/home.js 18-19), which throws when it cannot.
respondSuccess(r) ==
  LET h == [r EXCEPT !.head = 200, !.writes = @ + 1] IN
  IF ~jwtDecodes(member(r.token, "id_token"))
    THEN catchBlock(h, [cause |-> Undefined,
                        message |-> "Invalid token specified"])
  ELSE LET e == [h EXCEPT !.ended = TRUE,
                          !.body = "Authentication successful!"] IN
       IF env.FETCH_ADDITIONAL_RESOURCES THEN testRequests(e)
       ELSE [e EXCEPT !.pc = "returned"]

\* requestProfile up to its await (lines 192-210)
requestProfile(r) ==
  IF ~jwtDecodes(member(r.token, "id_token"))
    THEN catchBlock(r, [cause |-> Undefined,
                        message |-> "Invalid token specified"])
    ELSE [r EXCEPT !.profileGets = @ + 1, !.pc = "awaitProfile"]

\* lines 152-172 with the record written before the status is tested
onTokenResponseWriteFirst(r, reply) ==
  LET s == [r EXCEPT !.tokenStatus = reply.status] IN
  IF reply.kind = "reject"
    THEN catchBlock(r, [cause |-> "Error: connect ECONNREFUSED",
                        message |-> "fetch failed"])
  ELSE IF reply.kind = "status"
    THEN catchBlock([s EXCEPT !.wroteToken = TRUE],
                    [cause |-> "Failed to get token from Epic",
                     message |-> "Token exchange failed: "
                                 \o ToString(reply.status) \o " "
                                 \o reply.text])
  ELSE LET t == [s EXCEPT !.tokenBody = reply.body,
                          !.token = JSONparse(reply.body),
                          !.wroteToken = TRUE] IN
       IF env.FETCH_PROFILE THEN requestProfile(t) ELSE respondSuccess(t)

\* lines 152-172: the token endpoint's reply arrives
onTokenResponse(r, reply) ==
  LET s == [r EXCEPT !.tokenStatus = reply.status] IN
  IF reply.kind = "reject"
    THEN catchBlock(r, [cause |-> "Error: connect ECONNREFUSED",
                        message |-> "fetch failed"])
  ELSE IF reply.kind = "status"
    THEN catchBlock(s, [cause |-> "Failed to get token from Epic",
                        message |-> "Token exchange failed: "
                                    \o ToString(reply.status) \o " "
                                    \o reply.text])
  ELSE LET t == [s EXCEPT !.tokenBody = reply.body,
                          !.token = JSONparse(reply.body),
                          !.wroteToken = TRUE] IN
       IF env.FETCH_PROFILE THEN requestProfile(t) ELSE respondSuccess(t)

\* lines 203-217 and 170-174: the profile endpoint's reply arrives
onProfileResponse(r, reply) ==
  IF reply.kind = "reject"
    THEN catchBlock(r, [cause |-> "Error: connect ECONNREFUSED",
                        message |-> "fetch failed"])
  ELSE respondSuccess([r EXCEPT !.profile = IF reply.kind = "ok"
                                              THEN "profile" ELSE Undefined])

\* lines 247-265 and Bluebird.each's step: the reply to the GET of the
\* resource at position Len(r.gets) arrives
onResourceResponse(r, reply) ==
  LET k == Len(r.gets)
      h == [r EXCEPT !.handled = @ + 1]
      w == IF reply.kind = "ok"
             THEN [h EXCEPT !.files = Append(@, requests[k])] ELSE h
  IN
  IF reply.kind = "reject"
    THEN catchBlock(h, [cause |-> "Error: connect ECONNREFUSED",
                        message |-> "fetch failed"])
  ELSE IF k = Len(requests)
    THEN [w EXCEPT !.pc = "returned"]
    ELSE [w EXCEPT !.gets = Append(@, requests[k + 1])]

(***************************************************************************)
(* The inputs: request queries and the replies of the remote endpoints.    *)
(***************************************************************************)
NoQuery ==
  [state |-> Undefined, code |-> Undefined, error |-> Undefined,
   error_description |-> Undefined, launch |-> Undefined, iss |-> Undefined]

\* an initialization request: launch and iss each absent or given, or both
\* given with an empty value (?launch=&iss=)
InitializationQueries ==
  {[NoQuery EXCEPT !.launch = l, !.iss = i] :
     l \in {Undefined, "abc123"},
     i \in {Undefined, "https://issuer.example"}}
  \cup {[NoQuery EXCEPT !.launch = "", !.iss = ""]}

\* a callback: any state, with or without a code, with or without the
\* provider's error and its description
CallbackQueries ==
  {[NoQuery EXCEPT !.state = s, !.code = c, !.error = e[1],
                   !.error_description = e[2]] :
     s \in StateInputs,
     c \in {Undefined, "abc"},
     e \in {<<Undefined, Undefined>>, <<"access_denied", "User denied access">>}}

\* the bodies of the token endpoint's success answers: a compact one, one
\* laid out with two-space indentation, one whose ID token is not a JWT
TokenBodies ==
  {<<"{", "id_token", ":", "jwt", ",", "access_token", ":", "at", "}">>,
   <<"{", "\n",
     " ", " ", "id_token", ":", " ", "jwt", ",", "\n",
     " ", " ", "access_token", ":", " ", "at", "\n",
     "}">>,
   <<"{", "id_token", ":", "malformed", ",", "access_token", ":", "at", "}">>}

\* the token endpoint answers with a success status and a body, with
\* another status and a text, or the network call rejects
TokenReplies ==
  {[kind |-> "ok", status |-> 200, text |-> "", body |-> b] :
     b \in TokenBodies}
  \cup
  {[kind |-> "status", status |-> 400, text |-> "invalid_grant",
    body |-> << >>],
   [kind |-> "reject", status |-> 0, text |-> "", body |-> << >>]}

\* a GET is answered with a success status, with another status, or the
\* network call rejects
GetReplies == {[kind |-> "ok"], [kind |-> "status"], [kind |-> "reject"]}

NoLocation == [base |-> Undefined, params |-> << >>]

\* a request as it enters its handler
NewRequest(kind, query) ==
  [kind |-> kind, query |-> query, pc |-> "start",
   validated |-> "none", posts |-> << >>, tokenStatus |-> 0,
   tokenBody |-> << >>, token |-> NoToken,
   wroteToken |-> FALSE, profileGets |-> 0, profile |-> Undefined,
   gets |-> << >>, handled |-> 0, files |-> << >>,
   head |-> 0, writes |-> 0, ended |-> FALSE, body |-> "",
   location |-> NoLocation, error |-> NoError]

(***************************************************************************)
(* index.js: the request handler.  A handler runs without interruption     *)
(* from one await of a network call to the next, so each action below is   *)
(* the code between two such awaits.                                       *)
(***************************************************************************)
Init ==
  /\ stateStore = << >>
  /\ now = 0
  /\ ticks = 0
  /\ issued = << >>
  /\ calls = << >>
  /\ env \in [FETCH_PROFILE : BOOLEAN,
              FETCH_ADDITIONAL_RESOURCES : BOOLEAN,
              CLIENT_SECRET : {Undefined, "s3cret"}]
  /\ authUri = Undefined
  /\ tokenUri = Undefined
  /\ listening = TRUE
  /\ crashed = FALSE
  /\ reqs = << >>
  /\ tokenFile = NoFile
  /\ responseFiles = << >>

Accepting == listening /\ ~crashed /\ Len(reqs) < MaxRequests

\* the end of the handler (lines 44-53): once exchangeCodeForToken has
\* returned the server is closed; if it rejected, the handler's promise
\* rejects with nothing to catch it and the process dies
handlerEnd(r) ==
  /\ listening' = (listening /\ r.pc # "returned")
  /\ crashed' = (crashed \/ r.pc = "rejected")

\* fetchURIs() resolves (index.js 61, oauth.js 50-64)
MetadataResolved ==
  /\ ~crashed /\ authUri = Undefined
  /\ authUri' = AUTHORIZE_URI
  /\ tokenUri' = TOKEN_URI
  /\ UNCHANGED <<stateStore, now, ticks, issued, calls, env, listening,
                 crashed, reqs, tokenFile, responseFiles>>

\* fetchURIs() rejects: fetchURIs().then(...) has no rejection handler
MetadataFailed ==
  /\ ~crashed /\ authUri = Undefined
  /\ crashed' = TRUE
  /\ UNCHANGED <<stateStore, now, ticks, issued, calls, env, authUri,
                 tokenUri, listening, reqs, tokenFile, responseFiles>>

\* GET / (lines 32-35)
RequestHome ==
  /\ Accepting
  /\ reqs' = Append(reqs, [NewRequest("home", NoQuery) EXCEPT
                             !.head = 200, !.writes = 1, !.ended = TRUE,
                             !.body = "homePage", !.pc = "alive"])
  /\ UNCHANGED <<stateStore, now, ticks, issued, calls, env, authUri,
                 tokenUri, listening, crashed, tokenFile, responseFiles>>

\* GET INITIALIZATION_PATH (lines 38-40)
RequestInitialization ==
  /\ Accepting
  /\ Cardinality(DOMAIN issued) < MaxTokens
  /\ \E query \in InitializationQueries :
       LET uuid == uuidv4(Cardinality(DOMAIN issued))
           g == generateState(stateStore, now, uuid)
       IN
       /\ stateStore' = g.store
       /\ issued' = [k \in DOMAIN issued \cup {uuid} |->
                       IF k = uuid THEN now ELSE issued[k]]
       /\ reqs' = Append(reqs,
            [requestEpicAuthorization(NewRequest("init", query), g.ret)
               EXCEPT !.writes = 1, !.pc = "alive"])
  /\ UNCHANGED <<now, ticks, calls, env, authUri, tokenUri, listening,
                 crashed, tokenFile, responseFiles>>

\* GET CALLBACK_PATH (lines 43-45, 53): exchangeCodeForToken up to its first
\* await, or to its end when it aborts before
RequestCallback ==
  /\ Accepting
  /\ \E query \in CallbackQueries :
       LET v == validateState(stateStore, now, query.state)
           r == exchangeStart(NewRequest("callback", query), v.ret)
       IN
       /\ stateStore' = v.store
       /\ reqs' = Append(reqs, r)
       /\ handlerEnd(r)
  /\ UNCHANGED <<now, ticks, issued, calls, env, authUri, tokenUri,
                 tokenFile, responseFiles>>

\* any other path (lines 48-53)
RequestUnknown ==
  /\ Accepting
  /\ reqs' = Append(reqs, [NewRequest("unknown", NoQuery) EXCEPT
                             !.head = 404, !.writes = 1, !.ended = TRUE,
                             !.body = "Not Found", !.pc = "returned"])
  /\ listening' = FALSE
  /\ UNCHANGED <<stateStore, now, ticks, issued, calls, env, authUri,
                 tokenUri, crashed, tokenFile, responseFiles>>

\* the token endpoint answers request i's POST
TokenResponse(i) ==
  /\ ~crashed /\ reqs[i].pc = "awaitToken"
  /\ \E reply \in TokenReplies :
       LET r == onTokenResponse(reqs[i], reply) IN
       /\ reqs' = [reqs EXCEPT ![i] = r]
       /\ tokenFile' = IF r.wroteToken THEN JSONstringify(r.token)
                                       ELSE tokenFile
       /\ handlerEnd(r)
  /\ UNCHANGED <<stateStore, now, ticks, issued, calls, env, authUri,
                 tokenUri, responseFiles>>

\* the profile endpoint answers request i's GET
ProfileResponse(i) ==
  /\ ~crashed /\ reqs[i].pc = "awaitProfile"
  /\ \E reply \in GetReplies :
       LET r == onProfileResponse(reqs[i], reply) IN
       /\ reqs' = [reqs EXCEPT ![i] = r]
       /\ handlerEnd(r)
  /\ UNCHANGED <<stateStore, now, ticks, issued, calls, env, authUri,
                 tokenUri, tokenFile, responseFiles>>

\* the FHIR endpoint answers request i's current resource GET
ResourceResponse(i) ==
  /\ ~crashed /\ reqs[i].pc = "awaitResource"
  /\ \E reply \in GetReplies :
       LET r == onResourceResponse(reqs[i], reply) IN
       /\ reqs' = [reqs EXCEPT ![i] = r]
       /\ responseFiles' =
            IF reply.kind = "ok"
              THEN Append(responseFiles,
                          requests[Len(reqs[i].gets)])
              ELSE responseFiles
       /\ handlerEnd(r)
  /\ UNCHANGED <<stateStore, now, ticks, issued, calls, env, authUri,
                 tokenUri, tokenFile>>

\* the clock advances; only the time elapsed since an issuance is ever
\* read (state-manager.js 40), so the clock is let run while a state is pending
Tick ==
  /\ ticks < MaxTicks
  /\ DOMAIN stateStore # {}
  /\ \E d \in TickSteps : now' = now + d
  /\ ticks' = ticks + 1
  /\ UNCHANGED <<stateStore, issued, calls, env, authUri, tokenUri,
                 listening, crashed, reqs, tokenFile, responseFiles>>

Next ==
  \/ Tick
  \/ MetadataResolved
  \/ MetadataFailed
  \/ RequestHome
  \/ RequestInitialization
  \/ RequestCallback
  \/ RequestUnknown
  \/ \E i \in 1..Len(reqs) : TokenResponse(i)
  \/ \E i \in 1..Len(reqs) : ProfileResponse(i)
  \/ \E i \in 1..Len(reqs) : ResourceResponse(i)

Spec == Init /\ [][Next]_vars

(***************************************************************************)
(* The store harness: any sequence of generateState / validateState calls  *)
(* with the clock advancing between them.                                  *)
(***************************************************************************)
\* a call of generateState(); uuidv4 is taken to be collision-free
GenerateStateCall ==
  /\ Cardinality(DOMAIN issued) < MaxTokens
  /\ LET uuid == uuidv4(Cardinality(DOMAIN issued))
         g == generateState(stateStore, now, uuid)
     IN
     /\ stateStore' = g.store
     /\ issued' = [k \in DOMAIN issued \cup {uuid} |->
                     IF k = uuid THEN now ELSE issued[k]]
  /\ UNCHANGED <<now, ticks, calls, serverVars>>

\* a call of validateState(state) with any value
ValidateStateCall ==
  /\ Len(calls) < MaxCalls
  /\ \E state \in StateInputs :
       LET v == validateState(stateStore, now, state) IN
       /\ stateStore' = v.store
       /\ calls' = Append(calls,
            [state |-> state, ret |-> v.ret,
             known |-> state \in DOMAIN issued,
             pending |-> state \in DOMAIN stateStore,
             elapsed |-> IF state \in DOMAIN issued
                           THEN now - issued[state] ELSE 0,
             gone |-> state \notin DOMAIN v.store,
             late |-> /\ state \in DOMAIN issued
                      /\ now - issued[state] > STATE_TTL_MS,
             changed |-> v.store # stateStore])
  /\ UNCHANGED <<now, ticks, issued, serverVars>>

StoreNext == Tick \/ GenerateStateCall \/ ValidateStateCall

\* the harness does not read the configuration: one is enough
StoreInit ==
  /\ Init
  /\ env = [FETCH_PROFILE |-> FALSE, FETCH_ADDITIONAL_RESOURCES |-> FALSE,
            CLIENT_SECRET |-> Undefined]

SpecStore == StoreInit /\ [][StoreNext]_vars

(***************************************************************************)
(* Concurrent callbacks: the server once the metadata is resolved and      *)
(* initialization requests have issued every state, all still pending;     *)
(* from there any interleaving of callbacks and of the replies to their    *)
(* network calls.                                                          *)
(***************************************************************************)
FlowInit ==
  /\ stateStore = [k \in UUIDs |-> 0]
  /\ issued = [k \in UUIDs |-> 0]
  /\ now = 0
  /\ ticks = 0
  /\ calls = << >>
  /\ env \in [FETCH_PROFILE : BOOLEAN,
              FETCH_ADDITIONAL_RESOURCES : BOOLEAN,
              CLIENT_SECRET : {Undefined}]
  /\ authUri = AUTHORIZE_URI
  /\ tokenUri = TOKEN_URI
  /\ listening = TRUE
  /\ crashed = FALSE
  /\ reqs = << >>
  /\ tokenFile = NoFile
  /\ responseFiles = << >>

FlowNext ==
  \/ RequestCallback
  \/ \E i \in 1..Len(reqs) : TokenResponse(i)
  \/ \E i \in 1..Len(reqs) : ProfileResponse(i)
  \/ \E i \in 1..Len(reqs) : ResourceResponse(i)

SpecFlow == FlowInit /\ [][FlowNext]_vars

(***************************************************************************)
(* Helpers of the properties below.                                        *)
(***************************************************************************)
Callbacks == {i \in 1..Len(reqs) : reqs[i].kind = "callback"}
Initializations == {i \in 1..Len(reqs) : reqs[i].kind = "init"}
\* the handler of request i has run to its end
Finished(i) == reqs[i].pc \in {"alive", "returned", "rejected"}
\* the entries of a URLSearchParams with a given name
ValuesOf(params, name) ==
  {params[k][2] : k \in {j \in 1..Len(params) : params[j][1] = name}}
\* how many entries of a URLSearchParams have a given name
CountOf(params, name) ==
  Cardinality({j \in 1..Len(params) : params[j][1] = name})
\* the earlier calls on the same, already issued, state
EarlierAttempts(j) ==
  {i \in 1..(j - 1) : calls[i].state = calls[j].state /\ calls[i].known}

(***************************************************************************)
(* C1 (SpecStore).  A state returned by generateState validates at most    *)
(* once: every validateState call on it that follows an earlier validation *)
(* attempt on it returns false, so no two calls on it return true.         *)
(***************************************************************************)
C1_SingleUse ==
  \A j \in 1..Len(calls) : EarlierAttempts(j) # {} => calls[j].ret = FALSE

\* a state was validated successfully and then presented again
C1_Witness ==
  \E j \in 1..Len(calls) :
    /\ calls[j].ret = FALSE
    /\ \E i \in EarlierAttempts(j) : calls[i].ret = TRUE

(***************************************************************************)
(* C2 (SpecStore).  The first validateState call on an issued state, made  *)
(* more than STATE_TTL_MS after its issuance, returns false.               *)
(***************************************************************************)
C2_ExpiredIsInvalid ==
  \A j \in 1..Len(calls) :
    (calls[j].known /\ EarlierAttempts(j) = {} /\ calls[j].late)
      => calls[j].ret = FALSE

\* a never-validated state was presented after its TTL and was refused,
\* and the call consumed it
C2_Witness ==
  \E j \in 1..Len(calls) :
    /\ calls[j].known /\ EarlierAttempts(j) = {} /\ calls[j].late
    /\ calls[j].ret = FALSE /\ calls[j].changed

(***************************************************************************)
(* C3 (SpecStore).  validateState on a value generateState never returned  *)
(* (the absent state "undefined", an unissued uuid, a key inherited from   *)
(* Object.prototype) returns false and leaves the store unchanged.         *)
(***************************************************************************)
C3_UnknownIsInvalid ==
  \A j \in 1..Len(calls) :
    ~calls[j].known => (calls[j].ret = FALSE /\ ~calls[j].changed)

\* both the absent state and an inherited key were presented while a state
\* was pending
C3_Witness ==
  /\ DOMAIN stateStore # {}
  /\ \E j \in 1..Len(calls) : calls[j].state = Undefined /\ ~calls[j].ret
  /\ \E j \in 1..Len(calls) :
       calls[j].state \in ObjectPrototypeKeys /\ ~calls[j].ret

C5_ExactlyOnePost ==
  \A i \in Callbacks :
    (/\ reqs[i].validated = "true"
     /\ ~truthy(reqs[i].query.error)
     /\ truthy(reqs[i].query.code))
    => /\ Len(reqs[i].posts) = 1
       /\ reqs[i].posts[1].url = TOKEN_URI
       /\ ValuesOf(reqs[i].posts[1].body, "grant_type") = {"authorization_code"}
       /\ ValuesOf(reqs[i].posts[1].body, "code") = {reqs[i].query.code}
       /\ ValuesOf(reqs[i].posts[1].body, "redirect_uri") = {REDIRECT_URI}
       /\ ValuesOf(reqs[i].posts[1].body, "client_id") = {CLIENT_ID}

(***************************************************************************)
(* C6 (Spec).  Every abort of a callback before the success answer is      *)
(* answered 500 with the body "<cause>: <message>", the cause naming the   *)
(* kind of failure: "Invalid State" for a refused state, the provider's    *)
(* error code, "Missing code", "Failed to get token from Epic".            *)
(***************************************************************************)
C6_AbortCause ==
  \A i \in Callbacks :
    LET r == reqs[i] IN
    /\ r.validated = "false" =>
         /\ r.head = 500 /\ r.ended
         /\ r.error.cause = "Invalid State"
         /\ r.body = r.error.cause \o ": " \o r.error.message
    /\ (r.validated = "true" /\ truthy(r.query.error)) =>
         /\ r.head = 500 /\ r.ended
         /\ r.body = r.query.error \o ": " \o r.query.error_description
    /\ (r.validated = "true" /\ ~truthy(r.query.error)
        /\ ~truthy(r.query.code)) =>
         /\ r.head = 500 /\ r.ended
         /\ r.body = "Missing code: Missing authorization code"
    /\ r.tokenStatus \notin {0, 200} =>
         /\ r.head = 500 /\ r.ended
         /\ r.error.cause = "Failed to get token from Epic"
         /\ r.body = r.error.cause \o ": " \o r.error.message

(***************************************************************************)
(* C7 (Spec).  With profile fetching enabled, a callback whose token       *)
(* exchange succeeded is never answered 500, whatever becomes of the       *)
(* profile fetch.                                                          *)
(***************************************************************************)
C7_ProfileFailureNotFatal ==
  \A i \in Callbacks :
    (env.FETCH_PROFILE /\ reqs[i].wroteToken) => reqs[i].head # 500

(***************************************************************************)
(* C8 (Spec).  With additional-resource fetching enabled, a callback that  *)
(* answered with the success page and whose handler has run to its end     *)
(* has attempted every configured resource exactly once, in order.         *)
(***************************************************************************)
C8_EveryResourceAttempted ==
  \A i \in Callbacks :
    (/\ env.FETCH_ADDITIONAL_RESOURCES
     /\ reqs[i].head = 200 /\ reqs[i].ended
     /\ Finished(i))
    => reqs[i].gets = requests

(***************************************************************************)
(* C9 (Spec).  No request handler ends in an unhandled rejection, whatever *)
(* fails in the request: a refused state, a provider error, a missing      *)
(* code, the token exchange, the profile fetch, a resource fetch, an       *)
(* unknown path.  (Requests whose only failure is the rendering of the     *)
(* success page, an undecodable ID token with profile fetching off, are    *)
(* left out: the claim does not name that failure.)                        *)
(***************************************************************************)
C9_NoUnhandledRejection ==
  \A i \in 1..Len(reqs) :
    (\/ env.FETCH_PROFILE
     \/ reqs[i].token = NoToken
     \/ jwtDecodes(member(reqs[i].token, "id_token")))
    => reqs[i].pc # "rejected"

(***************************************************************************)
(* C10 (Spec).  The authorization URL of every initialization request has  *)
(* response_type=code, client_id, redirect_uri and state; it has aud       *)
(* (= iss) exactly if the request has a non-empty iss, launch (= launch)   *)
(* exactly if the request has a non-empty launch, and its scope is SCOPE   *)
(* followed by " launch" in that case and SCOPE otherwise.                 *)
(***************************************************************************)
C10_AuthorizationUrl ==
  \A i \in Initializations :
    LET q == reqs[i].query
        p == reqs[i].location.params
    IN
    /\ reqs[i].head = 302
    /\ ValuesOf(p, "response_type") = {"code"}
    /\ ValuesOf(p, "client_id") = {CLIENT_ID}
    /\ ValuesOf(p, "redirect_uri") = {REDIRECT_URI}
    /\ CountOf(p, "state") = 1 /\ ValuesOf(p, "state") \subseteq DOMAIN issued
    /\ ValuesOf(p, "aud") = IF truthy(q.iss) THEN {q.iss} ELSE {}
    /\ ValuesOf(p, "launch") = IF truthy(q.launch) THEN {q.launch} ELSE {}
    /\ ValuesOf(p, "scope") =
         IF truthy(q.launch) THEN {SCOPE \o " launch"} ELSE {SCOPE}

\* an embedded launch and a standalone request have both been redirected
C10_Witness ==
  /\ \E i \in Initializations :
       /\ reqs[i].query.launch = "abc123"
       /\ reqs[i].query.iss = "https://issuer.example"
       /\ reqs[i].head = 302
       /\ ValuesOf(reqs[i].location.params, "aud") = {"https://issuer.example"}
  /\ \E i \in Initializations :
       /\ reqs[i].query.launch = Undefined /\ reqs[i].query.iss = Undefined
       /\ reqs[i].head = 302

\* C10 as stated: aud and launch are present exactly if the request carries
\* iss and launch, whatever their values
C10_AsStated ==
  \A i \in Initializations :
    LET q == reqs[i].query
        p == reqs[i].location.params
    IN
    /\ CountOf(p, "aud") = 1 <=> q.iss # Undefined
    /\ CountOf(p, "launch") = 1 <=> q.launch # Undefined
    /\ ValuesOf(p, "scope") =
         IF q.launch # Undefined THEN {SCOPE \o " launch"} ELSE {SCOPE}

(***************************************************************************)
(* C11 (Spec).  Every initialization request generates a fresh state: the  *)
(* step that serves it adds exactly one entry to the state store, under a  *)
(* key that was never issued before, keeps every other entry as it was,    *)
(* and answers 302 with that key as the one state parameter.               *)
(***************************************************************************)
C11_FreshState ==
  [][(Len(reqs') = Len(reqs) + 1 /\ reqs'[Len(reqs')].kind = "init") =>
       LET r == reqs'[Len(reqs')]
           added == DOMAIN stateStore' \ DOMAIN stateStore
       IN
       /\ Cardinality(added) = 1
       /\ added \cap DOMAIN issued = {}
       /\ DOMAIN stateStore \subseteq DOMAIN stateStore'
       /\ \A k \in DOMAIN stateStore : stateStore'[k] = stateStore[k]
       /\ r.head = 302
       /\ CountOf(r.location.params, "state") = 1
       /\ ValuesOf(r.location.params, "state") = added
       /\ r.validated = "none"]_vars

\* two initialization requests were redirected with different states, and
\* both states are pending
C11_Witness ==
  \E i, j \in Initializations :
    /\ i < j
    /\ reqs[i].head = 302 /\ reqs[j].head = 302
    /\ ValuesOf(reqs[i].location.params, "state")
         # ValuesOf(reqs[j].location.params, "state")
    /\ ValuesOf(reqs[i].location.params, "state") \subseteq DOMAIN stateStore
    /\ ValuesOf(reqs[j].location.params, "state") \subseteq DOMAIN stateStore
    /\ Cardinality(DOMAIN stateStore) = 2

(***************************************************************************)
(* C12 (Spec).  While the authorization and token URIs are unresolved, no  *)
(* initialization request has been answered with a redirect and no         *)
(* callback has attempted the token exchange (passed the checks of lines   *)
(* 125-135 and called fetch on the token URI).                             *)
(***************************************************************************)
C12_NoServiceBeforeMetadata ==
  (authUri = Undefined \/ tokenUri = Undefined) =>
    /\ \A i \in Initializations : reqs[i].head # 302
    /\ \A i \in Callbacks :
         ~(/\ reqs[i].validated = "true"
           /\ ~truthy(reqs[i].query.error)
           /\ truthy(reqs[i].query.code))

(***************************************************************************)
(* C14 (Spec), as stated.  Whenever a callback persists the token record,  *)
(* the text of token.json is, lexeme for lexeme, the body the token        *)
(* endpoint returned to it.                                                *)
(***************************************************************************)
C14_AsStated ==
  [][\A i \in 1..Len(reqs) :
       (reqs[i].pc = "awaitToken" /\ reqs'[i].wroteToken)
         => tokenFile' = reqs'[i].tokenBody]_vars

(***************************************************************************)
(* C14 (Spec), amended.  Whenever a callback persists the token record,    *)
(* token.json is the two-space-indented serialization of the value parsed  *)
(* from the body the token endpoint returned to it, and parses back to     *)
(* that same value.                                                        *)
(***************************************************************************)
C14_SameValue ==
  [][\A i \in 1..Len(reqs) :
       (reqs[i].pc = "awaitToken" /\ reqs'[i].wroteToken)
         => /\ tokenFile' = JSONstringify(JSONparse(reqs'[i].tokenBody))
            /\ JSONparse(tokenFile') = JSONparse(reqs'[i].tokenBody)]_vars

\* a compact body was persisted: the record has the same members and is
\* not the same text
C14_Witness ==
  \E i \in Callbacks :
    /\ reqs[i].wroteToken
    /\ Len(reqs[i].tokenBody) = 9
    /\ tokenFile # reqs[i].tokenBody
    /\ JSONparse(tokenFile) = JSONparse(reqs[i].tokenBody)
    /\ Len(JSONparse(tokenFile)) = 2

(***************************************************************************)
(* C13 (SpecFlow).  token.json is written only by a callback whose token   *)
(* POST was answered with a success status, in the step that handles that  *)
(* answer, and then holds that answer's value and nothing else; no other   *)
(* step changes it.  So after any sequence of callbacks it holds the       *)
(* response of the most recent successful exchange.  A callback whose      *)
(* token POST was not answered with a success status writes no record and  *)
(* issues no profile or resource GET.                                      *)
(***************************************************************************)
C13_TokenRecord ==
  [][LET writers == {i \in 1..Len(reqs) :
                       reqs[i].pc = "awaitToken" /\ reqs'[i].wroteToken}
     IN
     /\ \A i \in writers :
          /\ reqs'[i].kind = "callback"
          /\ reqs'[i].tokenStatus = 200
          /\ tokenFile' = JSONstringify(JSONparse(reqs'[i].tokenBody))
     /\ writers = {} => tokenFile' = tokenFile
     /\ \A i \in 1..Len(reqs') :
          /\ reqs'[i].wroteToken => reqs'[i].tokenStatus = 200
          /\ (reqs'[i].profileGets > 0 \/ reqs'[i].gets # << >>)
               => reqs'[i].tokenStatus = 200]_vars

\* two callbacks exchanged their codes successfully for different tokens:
\* the record is one's and not the other's
C13_Witness ==
  \E i, j \in Callbacks :
    /\ i # j
    /\ reqs[i].wroteToken /\ reqs[j].wroteToken
    /\ reqs[i].token # reqs[j].token
    /\ tokenFile = JSONstringify(reqs[j].token)
    /\ tokenFile # JSONstringify(reqs[i].token)

\* the resource GETs of request i that are in flight: issued and their
\* reply not yet handled
InFlight(i) == Len(reqs[i].gets) - reqs[i].handled

(***************************************************************************)
(* C15 (SpecFlow), as stated.  At any moment at most one resource GET is   *)
(* in flight.                                                              *)
(***************************************************************************)
C15_AsStated ==
  /\ \A i \in 1..Len(reqs) : InFlight(i) <= 1
  /\ Cardinality({i \in 1..Len(reqs) : InFlight(i) > 0}) <= 1

(***************************************************************************)
(* C15 (SpecFlow), amended.  Within one callback the resource fetches are  *)
(* sequential and in the configured order: the GETs issued so far are a    *)
(* prefix of the configured list, at most one of them is in flight, a GET  *)
(* is issued only when every earlier one has been handled, and the step    *)
(* that issues the GET at position k + 1 is the step that handles the      *)
(* reply at position k and, when that reply is a success, writes its file. *)
(***************************************************************************)
C15_SequentialPerCallback ==
  [][\A i \in 1..Len(reqs') :
       LET old == IF i <= Len(reqs) THEN reqs[i]
                  ELSE NewRequest(reqs'[i].kind, reqs'[i].query)
           new == reqs'[i]
       IN
       /\ new.gets = SubSeq(requests, 1, Len(new.gets))
       /\ Len(new.gets) - new.handled \in {0, 1}
       /\ Len(new.files) <= new.handled
       /\ Len(new.gets) > Len(old.gets) =>
            /\ Len(new.gets) = Len(old.gets) + 1
            /\ new.handled = Len(old.gets)
            /\ new.head = 200 /\ new.ended
       /\ (Len(new.gets) > Len(old.gets) /\ Len(old.gets) > 0) =>
            /\ old.pc = "awaitResource"
            /\ new.handled = old.handled + 1]_vars

\* a callback has fetched every resource in order, each written before the
\* next was requested, and nothing is in flight
C15_Witness ==
  \E i \in Callbacks :
    /\ reqs[i].gets = requests
    /\ reqs[i].files = requests
    /\ reqs[i].handled = Len(requests)
    /\ InFlight(i) = 0
    /\ reqs[i].pc = "returned"

(***************************************************************************)
(* C16 (Spec).  The steps of a successful callback come in this order: the *)
(* token record is written; then, with profile fetching on, the profile    *)
(* GET is issued and its reply handled; then the 200 answer is sent; only  *)
(* then is a resource GET issued.  Once the 200 answer is sent, no later   *)
(* step changes the status or the body the caller received.                *)
(***************************************************************************)
C16_OrderOfSuccess ==
  [][\A i \in {j \in 1..Len(reqs') : reqs'[j].kind = "callback"} :
       LET old == IF i <= Len(reqs) THEN reqs[i]
                  ELSE NewRequest(reqs'[i].kind, reqs'[i].query)
           new == reqs'[i]
       IN
       /\ new.profileGets > 0 =>
            new.wroteToken /\ env.FETCH_PROFILE /\ new.profileGets = 1
       /\ new.head = 200 =>
            /\ new.wroteToken
            /\ env.FETCH_PROFILE =>
                 new.profileGets = 1 /\ new.pc # "awaitProfile"
       /\ new.gets # << >> =>
            /\ new.head = 200 /\ new.ended
            /\ new.body = "Authentication successful!"
       /\ (old.head = 200 /\ old.ended) =>
            /\ new.head = 200 /\ new.ended
            /\ new.body = old.body
            /\ new.writes = old.writes]_vars

\* a callback persisted the token, fetched the profile, answered 200 and
\* then had a resource fetch fail: the answer is still the success page
C16_Witness ==
  \E i \in Callbacks :
    /\ env.FETCH_PROFILE /\ reqs[i].profileGets = 1
    /\ reqs[i].wroteToken /\ tokenFile # NoFile
    /\ reqs[i].head = 200 /\ reqs[i].ended
    /\ reqs[i].body = "Authentication successful!"
    /\ reqs[i].handled = 1 /\ reqs[i].files = << >>
    /\ reqs[i].pc = "rejected"

(***************************************************************************)
(* C17 (Spec).  The step that serves a callback validates its state before *)
(* anything else and leaves the state out of the store whatever follows;   *)
(* when the state was not pending, or was issued more than STATE_TTL_MS    *)
(* ago, or was presented by an earlier callback, the callback is answered  *)
(* 500 as an invalid-state failure (cause "Invalid State") without a POST, *)
(* whatever its error and code parameters.                                 *)
(***************************************************************************)
C17_StateCheckedFirst ==
  [][(Len(reqs') = Len(reqs) + 1 /\ reqs'[Len(reqs')].kind = "callback") =>
       LET r == reqs'[Len(reqs')]
           t == r.query.state
           pending == t \in DOMAIN stateStore
           expired == pending /\ now - stateStore[t] > STATE_TTL_MS
           repeated == \E i \in Callbacks : reqs[i].query.state = t
       IN
       /\ r.validated # "none"
       /\ t \notin DOMAIN stateStore'
       /\ (~pending \/ expired \/ repeated) =>
            /\ r.validated = "false"
            /\ r.posts = << >>
            /\ r.head = 500 /\ r.ended
            /\ r.error.cause = "Invalid State"]_vars

(***************************************************************************)
(* C18 (SpecStore).  validateState(t) returns true exactly if t is pending *)
(* (issued and not yet presented) and at most STATE_TTL_MS have elapsed    *)
(* since its issuance; whenever t is pending the call removes it, whatever *)
(* it returns.                                                             *)
(***************************************************************************)
C18_TrueIffPendingWithinTTL ==
  \A j \in 1..Len(calls) :
    /\ calls[j].pending <=> (calls[j].known /\ EarlierAttempts(j) = {})
    /\ calls[j].ret <=>
         (calls[j].pending /\ calls[j].elapsed <= STATE_TTL_MS)
    /\ calls[j].pending => (calls[j].changed /\ calls[j].gone)

\* a state was presented exactly STATE_TTL_MS after its issuance: it was
\* accepted and removed, and presented again it was refused
C18_Witness ==
  \E j \in 1..Len(calls) :
    /\ calls[j].pending /\ calls[j].elapsed = STATE_TTL_MS
    /\ calls[j].ret /\ calls[j].gone
    /\ \E k \in (j + 1)..Len(calls) :
         /\ calls[k].state = calls[j].state
         /\ ~calls[k].pending /\ ~calls[k].ret

(***************************************************************************)
(* C19 (SpecFlow).  Of the callbacks that carry the same state, however    *)
(* their handlers interleave, at most one passes validateState and at most *)
(* one posts to the token endpoint: every callback that comes after        *)
(* another with the same state fails the validation and aborts (500) with  *)
(* no POST and no token record.                                            *)
(***************************************************************************)
C19_OneWinner ==
  \A i, j \in Callbacks :
    (i < j /\ reqs[i].query.state = reqs[j].query.state) =>
      /\ ~(reqs[i].validated = "true" /\ reqs[j].validated = "true")
      /\ ~(reqs[i].posts # << >> /\ reqs[j].posts # << >>)
      /\ reqs[j].validated = "false"
      /\ reqs[j].posts = << >> /\ ~reqs[j].wroteToken
      /\ reqs[j].head = 500 /\ reqs[j].ended

\* while a callback that passed the validation is awaiting the token
\* endpoint, a second callback with the same state and code was refused
C19_Witness ==
  \E i, j \in Callbacks :
    /\ i < j
    /\ reqs[i].query = reqs[j].query
    /\ reqs[i].validated = "true" /\ Len(reqs[i].posts) = 1
    /\ reqs[i].pc = "awaitToken"
    /\ reqs[j].validated = "false" /\ reqs[j].posts = << >>
    /\ reqs[j].head = 500

(***************************************************************************)
(* C20 (Spec).  Every callback whose handler has run to its end was        *)
(* answered exactly once, with 200 or with 500: one writeHead took effect, *)
(* the answer was ended, and the catch block was never entered after the   *)
(* headers had been written (a second attempt to answer, which throws).    *)
(***************************************************************************)
C20_ExactlyOneResponse ==
  \A i \in Callbacks :
    Finished(i) =>
      /\ reqs[i].head \in {200, 500}
      /\ reqs[i].writes = 1
      /\ reqs[i].ended
      /\ reqs[i].pc # "rejected"

(***************************************************************************)
(* C21 (Spec).  Serving the home page or an initialization request leaves  *)
(* the server listening; every callback and every request to an unknown    *)
(* path whose handler has run to its end has closed the server, and no     *)
(* sooner than that end; once the server is closed no further request is   *)
(* served and the state store no longer changes.                           *)
(***************************************************************************)
C21_ClosesAfterCallback ==
  [][/\ \A i \in 1..Len(reqs') :
          (reqs'[i].kind \in {"callback", "unknown"}
           /\ reqs'[i].pc \in {"returned", "rejected"}) => ~listening'
     /\ (listening /\ ~listening') =>
          \E i \in 1..Len(reqs') :
            /\ reqs'[i].kind \in {"callback", "unknown"}
            /\ reqs'[i].pc = "returned"
            /\ i > Len(reqs) \/ reqs[i].pc # "returned"
     /\ (Len(reqs') = Len(reqs) + 1
         /\ reqs'[Len(reqs')].kind \in {"home", "init"}) =>
          listening' = listening
     /\ ~listening =>
          /\ ~listening'
          /\ Len(reqs') = Len(reqs)
          /\ stateStore' = stateStore]_vars

(***************************************************************************)
(* C22 (SpecStore).  The state store changes only so: a generateState call *)
(* adds exactly one entry and keeps every other as it was; a               *)
(* validateState(t) call removes at most the entry of t and keeps every    *)
(* other as it was; no other step changes the store.  So an issued state   *)
(* that was never presented is still in the store, however long ago it     *)
(* was issued.                                                             *)
(***************************************************************************)
C22_StoreFrame ==
  [][/\ issued' # issued =>
          /\ DOMAIN stateStore \subseteq DOMAIN stateStore'
          /\ Cardinality(DOMAIN stateStore' \ DOMAIN stateStore) = 1
          /\ \A k \in DOMAIN stateStore : stateStore'[k] = stateStore[k]
     /\ calls' # calls =>
          LET t == calls'[Len(calls')].state IN
          /\ DOMAIN stateStore' \subseteq DOMAIN stateStore
          /\ DOMAIN stateStore \ DOMAIN stateStore' \subseteq {t}
          /\ \A k \in DOMAIN stateStore' : stateStore'[k] = stateStore[k]
     /\ (issued' = issued /\ calls' = calls) => stateStore' = stateStore
     /\ \A k \in DOMAIN issued' :
          (\A j \in 1..Len(calls') : calls'[j].state # k)
            => (k \in DOMAIN stateStore' /\ stateStore'[k] = issued'[k])]_vars

\* a state issued more than STATE_TTL_MS ago and never presented is still
\* in the store after another state was validated and removed
C22_Witness ==
  \E k \in DOMAIN stateStore :
    /\ now - stateStore[k] > STATE_TTL_MS
    /\ \A j \in 1..Len(calls) : calls[j].state # k
    /\ \E j \in 1..Len(calls) :
         /\ calls[j].pending /\ calls[j].gone
         /\ calls[j].state \notin DOMAIN stateStore

====
